---- MODULE Spec2Model ----
(***************************************************************************)
(* The observation pipeline of claude-observer.py: ClaudeObserver.run, the *)
(* four analysis stages, the bounded historical context, the prompt        *)
(* formatters and the report.                                              *)
(*                                                                         *)
(* Dicts are functions from string keys, lists are sequences, None is the  *)
(* tuple <<"None">>, a str is the sequence of its characters.  A formatted  *)
(* text is a sequence of lines, each line a tuple of its parts.            *)
(* datetime.now() is read off a clock that ticks with every record        *)
(* appended: readings order the records as wall-clock time does, and two   *)
(* records never carry the same one.                                       *)
(***************************************************************************)
EXTENDS Integers, Sequences, FiniteSets, TLC

VARIABLES
    pc,                 \* position of run(): "loop", a stage, "persist", "sleep", "crashed"
    iteration,          \* run(): iteration
    metrics,            \* run(): metrics, the snapshot of the current cycle
    anomalies,          \* run(): anomalies
    predictions,        \* run(): predictions
    recommendations,    \* run(): recommendations
    ha_check,           \* run(): ha_check
    historical_context, \* self.historical_context
    file,               \* contents of /tmp/claude-observer-latest.txt
    exc,                \* the uncaught exception that ended the process, or None
    entered,            \* history: the stages entered in this cycle, with the snapshot each was given
    calls,              \* history: the collaborator calls of this cycle (what a mock would record)
    failed,             \* history: the stages whose collaborator call raised in this cycle
    appended,           \* history: every record ever appended to historical_context, in order
    startStore,         \* history: historical_context as it stood when this cycle began
    collectedIn,        \* history: the cycle in which the dict now in metrics was built
    pair                \* the state of the side specifications: the two runs compared by
                        \* SpecPair, the inputs and results of the others (unused by Spec)

vars == <<pc, iteration, metrics, anomalies, predictions, recommendations, ha_check,
          historical_context, file, exc, entered, calls, failed, appended, startStore, collectedIn, pair>>

runVars == <<pc, iteration, metrics, anomalies, predictions, recommendations, ha_check,
             historical_context, file, exc, entered, calls, failed, appended, startStore, collectedIn>>

----------------------------------------------------------------------------
(* Bounds of the model *)

\* cycles a run of the model goes through; 11 appends are needed for one eviction
MaxCycles == 11

\* records appended in a run of SpecStore: 10 fill the store, 5 more evict
MaxAppends == 15

(* Program constants *)

\* line 132: if len(self.historical_context) > 10
MaxHistory == 10
\* line 144: if len(self.historical_context) < 3
MinHistory == 3
\* line 281: self.historical_context[-3:]
RecentChecks == 3
\* line 268: result[:20]
MaxItems == 20
\* line 283: entry['analysis'][:200]
SummaryLen == 200
\* line 296: self._format_metrics(cpu_data)[:100]
CpuLen == 100

None == <<"None">>
EmptyDict == <<>>

Min(a, b) == IF a < b THEN a ELSE b
Max(a, b) == IF a > b THEN a ELSE b

\* the keys get_cluster_metrics fills, in the order it queries them
Categories == <<"pod_cpu", "pod_memory", "node_cpu", "node_memory",
                "pod_restarts", "http_latency", "hpa_replicas">>
CategorySet == {Categories[i] : i \in 1..Len(Categories)}

----------------------------------------------------------------------------
(* The metric source: what one GET /api/v1/query can produce *)

Sample == [metric |-> "pod-a", value |-> <<"ts", "0.5">>]
\* a vector result
VectorBody == [status |-> "success", data |-> [result |-> <<Sample>>]]
\* a result with no series
NoSeriesBody == [status |-> "success", data |-> [result |-> <<>>]]
\* Prometheus's error body: no 'data' key
ErrorBody == [status |-> "error"]
\* JSON of another shape: a sample whose value list has one element
ShortValueBody == [status |-> "success", data |-> [result |-> <<[metric |-> "pod-a", value |-> <<"ts">>]>>]]

\* requests.get or response.json() raised
RequestFailed == [ok |-> FALSE, json |-> EmptyDict]
Response(body) == [ok |-> TRUE, json |-> body]

query_prometheus(outcome) ==
    IF outcome.ok THEN outcome.json ELSE EmptyDict

\* query_prometheus without its try: the first failed query ends the collection
\* and the categories from it on are never filled
get_cluster_metrics_StopsAtFailure(q) ==
    LET bad == {i \in 1..Len(Categories) : ~q[Categories[i]].ok}
        upto == IF bad = {} THEN Len(Categories)
                ELSE (CHOOSE i \in bad : \A j \in bad : i <= j) - 1
    IN  [c \in {Categories[i] : i \in 1..upto} |-> query_prometheus(q[c])]

get_cluster_metrics(q) ==
    [c \in CategorySet |-> query_prometheus(q[c])]

\* dict.get(key, {})
Get(d, key) == IF key \in DOMAIN d THEN d[key] ELSE EmptyDict

----------------------------------------------------------------------------
(* _format_metrics: [raised, text] *)

Raised == [raised |-> TRUE, text |-> <<>>]
Text(t) == [raised |-> FALSE, text |-> t]

\* f"  {metric}: {value[1]}" of one item; value[1] raises IndexError on a short list
FormatItem(item) ==
    LET metric == IF "metric" \in DOMAIN item THEN item.metric ELSE "{}"
        value  == IF "value" \in DOMAIN item THEN item.value ELSE <<"None", "N/A">>
    IN  IF Len(value) < 2 THEN Raised ELSE Text(<<metric, value[2]>>)

_format_metrics(metric_data) ==
    IF DOMAIN metric_data = {} \/ "data" \notin DOMAIN metric_data
    THEN Text(<<<<"No data available">>>>)
    ELSE LET result == IF "result" \in DOMAIN metric_data.data
                       THEN metric_data.data.result ELSE <<>>
         IN  IF Len(result) = 0
             THEN Text(<<<<"No metrics found">>>>)
             ELSE LET items == SubSeq(result, 1, Min(MaxItems, Len(result)))
                      lines == [i \in 1..Len(items) |-> FormatItem(items[i])]
                  IN  IF \E i \in 1..Len(items) : lines[i].raised
                      THEN Raised
                      ELSE Text([i \in 1..Len(items) |-> lines[i].text])

\* the first of the formatted values that raised decides: an f-string raises as a whole
AnyRaised(parts) == \E i \in 1..Len(parts) : parts[i].raised
Texts_of(parts) == [i \in 1..Len(parts) |-> parts[i].text]

\* s[:n]; a formatted text is cut by whole lines, a str by characters
Truncate(s, n) == SubSeq(s, 1, Min(n, Len(s)))

\* [:3] for [-3:]: the oldest three checks
_format_historical_context_OldestThree(h) ==
    IF Len(h) = 0
    THEN <<<<"No historical data yet">>>>
    ELSE LET recent == SubSeq(h, 1, Min(RecentChecks, Len(h)))
         IN  [i \in 1..Len(recent) |->
                 <<recent[i].timestamp, "Summary", Truncate(recent[i].analysis, SummaryLen)>>]

\* lines 275-285
_format_historical_context(h) ==
    IF Len(h) = 0
    THEN <<<<"No historical data yet">>>>
    ELSE LET recent == SubSeq(h, Max(1, Len(h) - RecentChecks + 1), Len(h))
         IN  [i \in 1..Len(recent) |->
                 <<recent[i].timestamp, "Summary", Truncate(recent[i].analysis, SummaryLen)>>]

\* the entry's analysis formatted into the line as well
_format_historical_metrics_WithAnalysis(h) ==
    IF Len(h) = 0
    THEN Text(<<<<"No historical data">>>>)
    ELSE LET cpu == [i \in 1..Len(h) |-> _format_metrics(Get(h[i].metrics, "pod_cpu"))]
         IN  IF AnyRaised(cpu)
             THEN Raised
             ELSE Text([i \in 1..Len(h) |->
                          <<h[i].timestamp, "CPU", Truncate(cpu[i].text, CpuLen), h[i].analysis>>])

\* lines 287-298: [raised, text]
_format_historical_metrics(h) ==
    IF Len(h) = 0
    THEN Text(<<<<"No historical data">>>>)
    ELSE LET cpu == [i \in 1..Len(h) |-> _format_metrics(Get(h[i].metrics, "pod_cpu"))]
         IN  IF AnyRaised(cpu)
             THEN Raised
             ELSE Text([i \in 1..Len(h) |->
                          <<h[i].timestamp, "CPU", Truncate(cpu[i].text, CpuLen)>>])

----------------------------------------------------------------------------
(* The inference collaborator: what one messages.create can produce *)

\* messages.create raised (timeout, error response)
CreateRaises == [ok |-> FALSE, content |-> <<>>]
\* a message with the given content blocks
Message(blocks) == [ok |-> TRUE, content |-> blocks]
TextBlock(t) == [text |-> t]

\* the try body of a stage: message.content[0].text, or the except branch
\* (content[0] of an empty list raises IndexError inside the try)
Analyse(outcome) ==
    IF outcome.ok /\ Len(outcome.content) > 0
    THEN [ok |-> TRUE, text |-> outcome.content[1].text]
    ELSE [ok |-> FALSE, text |-> None]

----------------------------------------------------------------------------
(* The historical context *)

\* the cap forgotten: append and never pop
StoreAppend_NoEviction(h, rec) == Append(h, rec)

\* pop() for pop(0): the newest record is dropped, not the oldest
StoreAppend_PopNewest(h, rec) ==
    LET a == Append(h, rec)
    IN  IF Len(a) > MaxHistory THEN SubSeq(a, 1, Len(a) - 1) ELSE a

\* the store reset when it overflows: only the new record kept
StoreAppend_KeepNewestOnly(h, rec) ==
    LET a == Append(h, rec)
    IN  IF Len(a) > MaxHistory THEN <<rec>> ELSE a

\* the cap tested with >= for >: the store never holds more than 9
StoreAppend_CapOffByOne(h, rec) ==
    LET a == Append(h, rec)
    IN  IF Len(a) >= MaxHistory THEN Tail(a) ELSE a

\* lines 125-133: append, then pop(0) when longer than 10
StoreAppend(h, rec) ==
    LET a == Append(h, rec)
    IN  IF Len(a) > MaxHistory THEN Tail(a) ELSE a

----------------------------------------------------------------------------
(* The stages.  Each yields [raised, invoked, ok, ret, hist, prompt]:      *)
(* raised  - an exception left the method (the prompt's f-string raised),  *)
(* invoked - messages.create was called, ok - it returned a text,          *)
(* ret     - the method's return value, hist - self.historical_context     *)
(* after the call, prompt - the content sent.                              *)

Formatted(m, keys) == [i \in 1..Len(keys) |-> _format_metrics(Get(m, keys[i]))]

StageRaised(h) ==
    [raised |-> TRUE, invoked |-> FALSE, ok |-> FALSE, ret |-> None, hist |-> h, prompt |-> <<>>]
StageSkipped(h) ==
    [raised |-> FALSE, invoked |-> FALSE, ok |-> FALSE, ret |-> None, hist |-> h, prompt |-> <<>>]
StageCalled(h, a, prompt) ==
    [raised |-> FALSE, invoked |-> TRUE, ok |-> a.ok, ret |-> a.text, hist |-> h, prompt |-> prompt]

\* the record never stored
detect_anomalies_NoAppend(h, m, now, outcome) ==
    LET parts == Formatted(m, <<"pod_cpu", "pod_memory", "node_cpu", "pod_restarts", "http_latency">>)
    IN  IF AnyRaised(parts)
        THEN StageRaised(h)
        ELSE StageCalled(h, Analyse(outcome),
                         [stage |-> "anomaly", max_tokens |-> 2000, now |-> now,
                          current |-> Texts_of(parts),
                          history |-> _format_historical_context(h)])

\* the record stored after the try, whether or not the call returned
detect_anomalies_AppendAlways(h, m, now, outcome) ==
    LET parts == Formatted(m, <<"pod_cpu", "pod_memory", "node_cpu", "pod_restarts", "http_latency">>)
    IN  IF AnyRaised(parts)
        THEN StageRaised(h)
        ELSE LET a == Analyse(outcome)
             IN  StageCalled(StoreAppend(h, [timestamp |-> now, metrics |-> m, analysis |-> a.text]),
                             a,
                             [stage |-> "anomaly", max_tokens |-> 2000, now |-> now,
                              current |-> Texts_of(parts),
                              history |-> _format_historical_context(h)])

\* lines 75-139
detect_anomalies(h, m, now, outcome) ==
    LET parts == Formatted(m, <<"pod_cpu", "pod_memory", "node_cpu", "pod_restarts", "http_latency">>)
    IN  IF AnyRaised(parts)
        THEN StageRaised(h)
        ELSE LET prompt == [stage |-> "anomaly", max_tokens |-> 2000, now |-> now,
                            current |-> Texts_of(parts),
                            history |-> _format_historical_context(h)]
                 a == Analyse(outcome)
                 rec == [timestamp |-> now, metrics |-> m, analysis |-> a.text]
             IN  StageCalled(IF a.ok THEN StoreAppend(h, rec) ELSE h, a, prompt)

\* the gate off by one: <= 3 for < 3
predict_load_GateOffByOne(h, m, now, outcome) ==
    IF Len(h) <= MinHistory
    THEN StageSkipped(h)
    ELSE LET hist == _format_historical_metrics(h)
             parts == Formatted(m, <<"pod_cpu">>)
         IN  IF hist.raised \/ AnyRaised(parts)
             THEN StageRaised(h)
             ELSE StageCalled(h, Analyse(outcome),
                              [stage |-> "prediction", max_tokens |-> 1500, now |-> now,
                               current |-> Texts_of(parts), history |-> hist.text])

\* the prediction stage cutting the store down to what it formatted
predict_load_TrimsHistory(h, m, now, outcome) ==
    IF Len(h) < MinHistory
    THEN StageSkipped(h)
    ELSE LET hist == _format_historical_metrics(h)
             parts == Formatted(m, <<"pod_cpu">>)
         IN  IF hist.raised \/ AnyRaised(parts)
             THEN StageRaised(h)
             ELSE StageCalled(SubSeq(h, Len(h) - MinHistory + 1, Len(h)), Analyse(outcome),
                              [stage |-> "prediction", max_tokens |-> 1500, now |-> now,
                               current |-> Texts_of(parts), history |-> hist.text])

\* lines 141-181
predict_load(h, m, now, outcome) ==
    IF Len(h) < MinHistory
    THEN StageSkipped(h)
    ELSE LET hist == _format_historical_metrics(h)
             parts == Formatted(m, <<"pod_cpu">>)
         IN  IF hist.raised \/ AnyRaised(parts)
             THEN StageRaised(h)
             ELSE StageCalled(h, Analyse(outcome),
                              [stage |-> "prediction", max_tokens |-> 1500, now |-> now,
                               current |-> Texts_of(parts), history |-> hist.text])

\* lines 183-216
recommend_optimizations(h, m, outcome) ==
    LET parts == Formatted(m, <<"pod_cpu", "pod_memory", "node_cpu">>)
    IN  IF AnyRaised(parts)
        THEN StageRaised(h)
        ELSE StageCalled(h, Analyse(outcome),
                         [stage |-> "optimization", max_tokens |-> 2000,
                          current |-> Texts_of(parts)])

\* lines 218-256
check_ha_resilience(h, m, outcome) ==
    LET parts == Formatted(m, <<"pod_restarts", "hpa_replicas">>)
    IN  IF AnyRaised(parts)
        THEN StageRaised(h)
        ELSE StageCalled(h, Analyse(outcome),
                         [stage |-> "resilience", max_tokens |-> 1500,
                          current |-> Texts_of(parts)])

\* x or default: None and the empty str are falsy
Or(x, default) == IF x = None \/ Len(x) = 0 THEN default ELSE x

\* the placeholders of the first two sections exchanged
generate_report_SwappedPlaceholders(a, p, r, ha, now) ==
    [timestamp |-> now,
     anomaly_detection        |-> Or(a,  <<"Insufficient historical data">>),
     load_prediction          |-> Or(p,  <<"No analysis available">>),
     resource_recommendations |-> Or(r,  <<"No recommendations at this time">>),
     high_availability_check  |-> Or(ha, <<"No HA issues detected">>)]

\* nothing returned when no stage has a text
generate_report_EmptyWhenAllSkipped(a, p, r, ha, now) ==
    IF a = None /\ p = None /\ r = None /\ ha = None
    THEN <<>>
    ELSE [timestamp |-> now,
          anomaly_detection        |-> Or(a,  <<"No analysis available">>),
          load_prediction          |-> Or(p,  <<"Insufficient historical data">>),
          resource_recommendations |-> Or(r,  <<"No recommendations at this time">>),
          high_availability_check  |-> Or(ha, <<"No HA issues detected">>)]

\* lines 300-331
generate_report(a, p, r, ha, now) ==
    [timestamp |-> now,
     anomaly_detection        |-> Or(a,  <<"No analysis available">>),
     load_prediction          |-> Or(p,  <<"Insufficient historical data">>),
     resource_recommendations |-> Or(r,  <<"No recommendations at this time">>),
     high_availability_check  |-> Or(ha, <<"No HA issues detected">>)]

----------------------------------------------------------------------------
(* The inputs of a run *)

\* the texts the collaborator returns
Texts == {<<"o", "k">>}

Outcomes(texts) ==
    {CreateRaises, Message(<<>>)} \cup {Message(<<TextBlock(t)>>) : t \in texts}

CollaboratorOutcomes == Outcomes(Texts)

AllVectors == [c \in CategorySet |-> Response(VectorBody)]

\* what the seven queries of one collection return: all well-formed, or one
\* body of another shape in a category the anomaly stage formats (pod_cpu) or
\* in the one only the resilience stage formats (hpa_replicas)
QueryOutcomes ==
    {AllVectors,
     [AllVectors EXCEPT !["pod_cpu"] = Response(ShortValueBody)],
     [AllVectors EXCEPT !["hpa_replicas"] = Response(ShortValueBody)]}

\* the outcomes of open(path, 'w') and f.write(report)
WriteOutcomes == {"written", "open raises", "write raises"}

NoFile == <<"no file">>
\* the file after open(path, 'w') truncated it and write raised
Truncated == <<>>

----------------------------------------------------------------------------
(* run() *)

RunInit ==
    /\ pc = "loop"
    /\ iteration = 0
    /\ metrics = EmptyDict
    /\ anomalies = None
    /\ predictions = None
    /\ recommendations = None
    /\ ha_check = None
    /\ historical_context = <<>>
    /\ file = NoFile
    /\ exc = "none"
    /\ entered = <<>>
    /\ calls = <<>>
    /\ failed = {}
    /\ appended = <<>>
    /\ startStore = <<>>
    /\ collectedIn = 0

Init ==
    /\ RunInit
    /\ pair = <<>>

\* datetime.now()
Now == Len(appended) + 1

\* a stage method is called with the snapshot in metrics
Enter(stage) == entered' = Append(entered, [stage |-> stage, given |-> collectedIn])

\* what the call did to the collaborator
Note(stage, r) ==
    /\ calls' = IF r.invoked THEN Append(calls, r.prompt) ELSE calls
    /\ failed' = IF r.invoked /\ ~r.ok THEN failed \cup {stage} ELSE failed

\* the method returned to run(), or its exception left run() uncaught
Return(r, method, next) ==
    /\ pc' = IF r.raised THEN "crashed" ELSE next
    /\ exc' = IF r.raised THEN method ELSE exc

\* lines 343-351: iteration += 1; metrics = self.get_cluster_metrics()
RunCollect ==
    /\ pc = "loop"
    /\ iteration < MaxCycles
    /\ iteration' = iteration + 1
    /\ \E q \in QueryOutcomes : metrics' = get_cluster_metrics(q)
    /\ collectedIn' = iteration + 1
    /\ startStore' = historical_context
    /\ entered' = <<>>
    /\ calls' = <<>>
    /\ failed' = {}
    /\ pc' = "anomaly"
    /\ UNCHANGED <<anomalies, predictions, recommendations, ha_check,
                   historical_context, file, exc, appended, pair>>

\* line 355: anomalies = self.detect_anomalies(metrics)
RunDetectAnomalies ==
    /\ pc = "anomaly"
    /\ \E o \in CollaboratorOutcomes :
         LET r == detect_anomalies(historical_context, metrics, Now, o)
         IN  /\ Enter("anomaly")
             /\ Note("anomaly", r)
             /\ Return(r, "detect_anomalies", "predict")
             /\ anomalies' = IF r.raised THEN anomalies ELSE r.ret
             /\ historical_context' = r.hist
             /\ appended' = IF r.ok
                            THEN Append(appended, [timestamp |-> Now, metrics |-> metrics,
                                                   analysis |-> r.ret])
                            ELSE appended
    /\ UNCHANGED <<iteration, metrics, predictions, recommendations, ha_check, file,
                   startStore, collectedIn, pair>>

\* the calls of lines 358-364 reordered: resilience straight after prediction
RunPredictLoad_ThenResilience ==
    /\ pc = "predict"
    /\ \E o \in CollaboratorOutcomes :
         LET r == predict_load(historical_context, metrics, Now, o)
         IN  /\ Enter("prediction")
             /\ Note("prediction", r)
             /\ Return(r, "predict_load", "resilience")
             /\ predictions' = IF r.raised THEN predictions ELSE r.ret
             /\ historical_context' = r.hist
    /\ UNCHANGED <<iteration, metrics, anomalies, recommendations, ha_check, file,
                   appended, startStore, collectedIn, pair>>

\* line 358: predictions = self.predict_load(metrics)
RunPredictLoad ==
    /\ pc = "predict"
    /\ \E o \in CollaboratorOutcomes :
         LET r == predict_load(historical_context, metrics, Now, o)
         IN  /\ Enter("prediction")
             /\ Note("prediction", r)
             /\ Return(r, "predict_load", "optimize")
             /\ predictions' = IF r.raised THEN predictions ELSE r.ret
             /\ historical_context' = r.hist
    /\ UNCHANGED <<iteration, metrics, anomalies, recommendations, ha_check, file,
                   appended, startStore, collectedIn, pair>>

\* line 361: recommendations = self.recommend_optimizations(metrics)
RunRecommendOptimizations ==
    /\ pc = "optimize"
    /\ \E o \in CollaboratorOutcomes :
         LET r == recommend_optimizations(historical_context, metrics, o)
         IN  /\ Enter("optimization")
             /\ Note("optimization", r)
             /\ Return(r, "recommend_optimizations", "resilience")
             /\ recommendations' = IF r.raised THEN recommendations ELSE r.ret
             /\ historical_context' = r.hist
    /\ UNCHANGED <<iteration, metrics, anomalies, predictions, ha_check, file,
                   appended, startStore, collectedIn, pair>>

\* line 364: ha_check = self.check_ha_resilience(metrics)
RunCheckHaResilience ==
    /\ pc = "resilience"
    /\ \E o \in CollaboratorOutcomes :
         LET r == check_ha_resilience(historical_context, metrics, o)
         IN  /\ Enter("resilience")
             /\ Note("resilience", r)
             /\ Return(r, "check_ha_resilience", "report")
             /\ ha_check' = IF r.raised THEN ha_check ELSE r.ret
             /\ historical_context' = r.hist
    /\ UNCHANGED <<iteration, metrics, anomalies, predictions, recommendations, file,
                   appended, startStore, collectedIn, pair>>

\* the file opened with 'a': the report written after what the file held
RunReport_AppendMode ==
    /\ pc = "report"
    /\ \E w \in WriteOutcomes :
         LET report == generate_report(anomalies, predictions, recommendations, ha_check, Now)
         IN  /\ file' = CASE w = "written"      -> <<file, report>>
                           [] w = "open raises"  -> file
                           [] w = "write raises" -> file
             /\ pc' = IF w = "written" THEN "sleep" ELSE "crashed"
             /\ exc' = IF w = "written" THEN exc ELSE "open"
    /\ UNCHANGED <<iteration, metrics, anomalies, predictions, recommendations, ha_check,
                   historical_context, entered, calls, failed, appended, startStore,
                   collectedIn, pair>>

\* lines 367-372: report = self.generate_report(...); print(report);
\* with open('/tmp/claude-observer-latest.txt', 'w') as f: f.write(report)
RunReport ==
    /\ pc = "report"
    /\ \E w \in WriteOutcomes :
         LET report == generate_report(anomalies, predictions, recommendations, ha_check, Now)
         IN  /\ file' = CASE w = "written"      -> report
                           [] w = "open raises"  -> file
                           [] w = "write raises" -> Truncated
             /\ pc' = IF w = "written" THEN "sleep" ELSE "crashed"
             /\ exc' = IF w = "written" THEN exc ELSE "open"
    /\ UNCHANGED <<iteration, metrics, anomalies, predictions, recommendations, ha_check,
                   historical_context, entered, calls, failed, appended, startStore,
                   collectedIn, pair>>

\* lines 374-375: time.sleep(self.check_interval), then the next turn of while True
RunSleep ==
    /\ pc = "sleep"
    /\ pc' = "loop"
    /\ UNCHANGED <<iteration, metrics, anomalies, predictions, recommendations, ha_check,
                   historical_context, file, exc, entered, calls, failed, appended,
                   startStore, collectedIn, pair>>

Next ==
    \/ RunCollect
    \/ RunDetectAnomalies
    \/ RunPredictLoad
    \/ RunRecommendOptimizations
    \/ RunCheckHaResilience
    \/ RunReport
    \/ RunSleep

Spec == Init /\ [][Next]_vars

----------------------------------------------------------------------------
(* Two runs of the first two stages of one cycle, side by side: the same   *)
(* store, snapshot and clock at the start of the cycle, the same outcome   *)
(* of the prediction call, and any two outcomes of the anomaly call.       *)

PairTexts == {<<"o", "k">>, <<"n", "o">>}

\* a store as k successful cycles leave it; after the first eviction the
\* oldest timestamp is 2
StoreOf(first, k) ==
    [i \in 1..k |-> [timestamp |-> first + i - 1,
                     metrics |-> get_cluster_metrics(AllVectors),
                     analysis |-> <<"o", "k">>]]

PairStores == {StoreOf(1, k) : k \in 0..MaxHistory} \cup {StoreOf(2, MaxHistory)}

InitPair ==
    /\ RunInit
    /\ \E s \in PairStores, q \in QueryOutcomes,
          oa \in Outcomes(PairTexts), ob \in Outcomes(PairTexts), op \in Outcomes(PairTexts) :
         pair = [step |-> "anomaly", store |-> s, metrics |-> get_cluster_metrics(q),
                 now |-> IF Len(s) = 0 THEN 1 ELSE s[Len(s)].timestamp + 1,
                 oa |-> oa, ob |-> ob, op |-> op,
                 a |-> StageSkipped(s), b |-> StageSkipped(s),
                 pa |-> StageSkipped(s), pb |-> StageSkipped(s)]

\* line 355 in both runs
PairDetectAnomalies ==
    /\ pair.step = "anomaly"
    /\ pair' = [pair EXCEPT
                  !.step = "predict",
                  !.a = detect_anomalies(pair.store, pair.metrics, pair.now, pair.oa),
                  !.b = detect_anomalies(pair.store, pair.metrics, pair.now, pair.ob)]
    /\ UNCHANGED runVars

\* line 358 in both runs, when detect_anomalies returned in both; the clock
\* has moved on, by the same amount in both
PairPredictLoad ==
    /\ pair.step = "predict"
    /\ ~pair.a.raised /\ ~pair.b.raised
    /\ pair' = [pair EXCEPT
                  !.step = "done",
                  !.pa = predict_load(pair.a.hist, pair.metrics, pair.now + 1, pair.op),
                  !.pb = predict_load(pair.b.hist, pair.metrics, pair.now + 1, pair.op)]
    /\ UNCHANGED runVars

NextPair ==
    \/ PairDetectAnomalies
    \/ PairPredictLoad

SpecPair == InitPair /\ [][NextPair]_vars

----------------------------------------------------------------------------
(* generate_report on every combination of stage results: None, the empty  *)
(* str or a text for each of the four.                                     *)

StageResults == {None, <<>>, <<"o", "k">>}

InitReport ==
    /\ RunInit
    /\ \E a \in StageResults, p \in StageResults, r \in StageResults, ha \in StageResults,
          now \in 1..2 :
         pair = [step |-> "synthesize", a |-> a, p |-> p, r |-> r, ha |-> ha, now |-> now,
                 report |-> <<>>]

\* line 367
ReportSynthesize ==
    /\ pair.step = "synthesize"
    /\ pair' = [pair EXCEPT
                  !.step = "done",
                  !.report = generate_report(pair.a, pair.p, pair.r, pair.ha, pair.now)]
    /\ UNCHANGED runVars

SpecReport == InitReport /\ [][ReportSynthesize]_vars

----------------------------------------------------------------------------
(* One collection and the stages' use of it, for every way the seven       *)
(* queries can fail or answer with a well-formed body.                     *)

CollectOutcomes == {RequestFailed, Response(VectorBody), Response(ErrorBody)}

InitCollect ==
    /\ RunInit
    /\ \E q \in [CategorySet -> CollectOutcomes] :
         pair = [step |-> "collect", q |-> q, metrics |-> EmptyDict,
                 stages |-> <<>>]

\* line 351
CollectMetrics ==
    /\ pair.step = "collect"
    /\ pair' = [pair EXCEPT !.step = "collected", !.metrics = get_cluster_metrics(pair.q)]
    /\ UNCHANGED runVars

\* lines 355-364 on that snapshot, from an empty store
CollectAnalyse ==
    /\ pair.step = "collected"
    /\ \E o \in CollaboratorOutcomes :
         pair' = [pair EXCEPT
                    !.step = "analysed",
                    !.stages = <<detect_anomalies(<<>>, pair.metrics, 1, o),
                                 predict_load(<<>>, pair.metrics, 1, o),
                                 recommend_optimizations(<<>>, pair.metrics, o),
                                 check_ha_resilience(<<>>, pair.metrics, o)>>]
    /\ UNCHANGED runVars

NextCollect ==
    \/ CollectMetrics
    \/ CollectAnalyse

SpecCollect == InitCollect /\ [][NextCollect]_vars

----------------------------------------------------------------------------
(* The store alone: detect_anomalies called over and over, each call       *)
(* failing or returning one of two texts.                                  *)

InitStore ==
    /\ RunInit
    /\ pair = [step |-> "append", store |-> <<>>, log |-> <<>>]

\* line 355, again and again: pair.log is what the successful calls stored
StoreDetectAnomalies ==
    /\ pair.step = "append"
    /\ Len(pair.log) < MaxAppends
    /\ \E o \in Outcomes(PairTexts) :
         LET now == Len(pair.log) + 1
             m == get_cluster_metrics(AllVectors)
             r == detect_anomalies(pair.store, m, now, o)
         IN  pair' = [pair EXCEPT
                        !.store = r.hist,
                        !.log = IF r.ok
                                THEN Append(pair.log, [timestamp |-> now, metrics |-> m,
                                                       analysis |-> r.ret])
                                ELSE pair.log]
    /\ UNCHANGED runVars

SpecStore == InitStore /\ [][StoreDetectAnomalies]_vars

----------------------------------------------------------------------------
(* Properties *)

StageOrder == <<"anomaly", "prediction", "optimization", "resilience">>

\* the anomaly stage of the current cycle has returned to run()
AnomalyReturned == pc = "predict" \/ Len(entered) >= 2

\* `after` is `before` with exactly one record appended at the tail and the
\* oldest dropped if that made it longer than 10
OneAppended(before, after) ==
    LET n == Len(before)
    IN  IF n < 10
        THEN Len(after) = n + 1 /\ SubSeq(after, 1, n) = before
        ELSE Len(after) = 10 /\ SubSeq(after, 1, 9) = SubSeq(before, 2, 10)

\* the collaborator call the prediction stage made in this cycle, if any
PredictionCalls == {i \in 1..Len(calls) : calls[i].stage = "prediction"}

\* C1: in every reachable state the historical context holds at most 10 records.
C1_AtMostTenRecords == Len(historical_context) <= 10

C1_Witness_Evicted ==
    /\ Len(appended) > 10
    /\ Len(historical_context) = 10

\* C2: after n appends the store is exactly the min(n, 10) most recently
\* appended records, oldest first, none duplicated, reordered or altered.
C2_NewestInOrder ==
    LET n == Len(appended)
        k == Min(n, 10)
    IN  /\ Len(historical_context) = k
        /\ \A i \in 1..k : historical_context[i] = appended[n - k + i]
        /\ \A i, j \in 1..k : i < j => historical_context[i] # historical_context[j]

C2_Witness_OldestDropped ==
    /\ Len(appended) = 11
    /\ historical_context[1] = appended[2]
    /\ historical_context[10] = appended[11]

\* C3: the prediction stage calls the collaborator exactly when the store
\* holds at least 3 records at the time the stage is called; below that it
\* returns None (rendered 'Insufficient historical data') without a call.
C3_PredictionGate ==
    [][pc = "predict" =>
         LET called == Len(calls') = Len(calls) + 1 /\ calls'[Len(calls')].stage = "prediction"
         IN  /\ Len(historical_context) < 3 =>
                   /\ calls' = calls
                   /\ predictions' = None
                   /\ generate_report(anomalies', predictions', recommendations', ha_check', 0).load_prediction
                          = <<"Insufficient historical data">>
             /\ Len(historical_context) >= 3 => called]_vars

C3_Witness_CalledAtThree ==
    /\ pc = "optimize"
    /\ Len(historical_context) = 3
    /\ PredictionCalls # {}

\* C4: a cycle in which some stage's collaborator call failed still enters
\* the stages after it and reaches report synthesis.
C4_FailedCallCycleReachesReport ==
    ~(pc = "crashed" /\ failed # {} /\ exc # "open")

C6_NoExceptionEndsLoop ==
    ~(pc = "crashed" /\ exc \in {"detect_anomalies", "predict_load",
                                  "recommend_optimizations", "check_ha_resilience"})

\* C7: a failure to write the report file does not end the process.
C7_WriteFailureContained ==
    ~(pc = "crashed" /\ exc = "open")

\* C8: in every cycle the stages are entered in the order anomaly, prediction,
\* optimization, resilience, each at most once, each with the snapshot
\* collected at the start of that cycle.
C8_StagesInOrderOnSnapshot ==
    /\ Len(entered) <= 4
    /\ \A i \in 1..Len(entered) :
          /\ entered[i].stage = StageOrder[i]
          /\ entered[i].given = iteration

C8_Witness_FourEntered ==
    /\ pc = "report"
    /\ iteration >= 2
    /\ Len(entered) = 4

C11_FileIsThisCyclesReport ==
    pc = "sleep" =>
        /\ file = generate_report(anomalies, predictions, recommendations, ha_check, Now)
        /\ DOMAIN file = {"timestamp", "anomaly_detection", "load_prediction",
                          "resource_recommendations", "high_availability_check"}
        /\ file.anomaly_detection =
              (IF "anomaly" \in failed THEN <<"No analysis available">>
               ELSE Or(historical_context[Len(historical_context)].analysis,
                       <<"No analysis available">>))
        /\ (PredictionCalls = {} \/ "prediction" \in failed) =>
              file.load_prediction = <<"Insufficient historical data">>

\* a second report written over a first one that differed from it
C11_Witness_Overwritten ==
    /\ pc = "sleep"
    /\ iteration = 4
    /\ failed = {"anomaly", "prediction", "optimization", "resilience"}
    /\ Len(historical_context) = 3

\* what a section shows: the text as it is, or the stage's placeholder
Verbatim(x, section, placeholder) ==
    IF x = None THEN section = placeholder ELSE section = x

\* C12 as stated: each section is the stage's text verbatim if the stage
\* produced one, the empty str included, and the stage's own placeholder if not.
C12_VerbatimOrPlaceholder ==
    pair.step = "done" =>
        /\ Verbatim(pair.a,  pair.report.anomaly_detection,        <<"No analysis available">>)
        /\ Verbatim(pair.p,  pair.report.load_prediction,          <<"Insufficient historical data">>)
        /\ Verbatim(pair.r,  pair.report.resource_recommendations, <<"No recommendations at this time">>)
        /\ Verbatim(pair.ha, pair.report.high_availability_check,  <<"No HA issues detected">>)

VerbatimUnlessEmpty(x, section, placeholder) ==
    IF x = None \/ Len(x) = 0 THEN section = placeholder ELSE section = x

\* C12 as amended: each section is the stage's text verbatim if the stage
\* produced a non-empty one, and the stage's own placeholder if it produced
\* none or the empty str.
C12_VerbatimUnlessEmpty ==
    pair.step = "done" =>
        /\ VerbatimUnlessEmpty(pair.a,  pair.report.anomaly_detection,        <<"No analysis available">>)
        /\ VerbatimUnlessEmpty(pair.p,  pair.report.load_prediction,          <<"Insufficient historical data">>)
        /\ VerbatimUnlessEmpty(pair.r,  pair.report.resource_recommendations, <<"No recommendations at this time">>)
        /\ VerbatimUnlessEmpty(pair.ha, pair.report.high_availability_check,  <<"No HA issues detected">>)

C12_Witness_EmptyTextAndNone ==
    /\ pair.step = "done"
    /\ pair.a = <<>> /\ pair.report.anomaly_detection = <<"No analysis available">>
    /\ pair.p = None /\ pair.report.load_prediction = <<"Insufficient historical data">>
    /\ pair.r = <<"o", "k">> /\ pair.report.resource_recommendations = <<"o", "k">>

\* C13: a failed query leaves {} in its own category and nothing else: the
\* other queries' answers are in the snapshot, all seven categories are
\* present, and the stages run on it without raising.
C13_FailedQueryDegradesItsCategory ==
    /\ pair.step \in {"collected", "analysed"} =>
          /\ DOMAIN pair.metrics = {"pod_cpu", "pod_memory", "node_cpu", "node_memory",
                                    "pod_restarts", "http_latency", "hpa_replicas"}
          /\ \A c \in DOMAIN pair.metrics :
                IF pair.q[c].ok
                THEN pair.metrics[c] = pair.q[c].json
                ELSE DOMAIN pair.metrics[c] = {}
    /\ pair.step = "analysed" =>
          /\ \A i \in 1..4 : ~pair.stages[i].raised
          /\ \A i \in {1, 3, 4} : pair.stages[i].invoked

\* the first query failed, the six after it were answered
C13_Witness_OneQueryFailed ==
    /\ pair.step = "analysed"
    /\ ~pair.q["pod_cpu"].ok
    /\ \A c \in CategorySet \ {"pod_cpu"} : pair.metrics[c] = VectorBody
    /\ pair.stages[1].invoked

\* C14: within one run the store never gets shorter, so once the prediction
\* stage has called the collaborator the store holds at least 3 records from
\* then on and the stage is never again skipped for lack of history.
C14_WarmStaysWarm ==
    [][/\ Len(historical_context') >= Len(historical_context)
       /\ PredictionCalls # {} => Len(historical_context) >= 3 /\ Len(historical_context') >= 3
       /\ (Len(appended) >= 3 /\ pc = "predict") =>
             /\ Len(calls') = Len(calls) + 1
             /\ calls'[Len(calls')].stage = "prediction"]_vars

\* the prediction stage called again in a cycle whose append evicted a record
C14_Witness_WarmAfterEviction ==
    /\ pc = "optimize"
    /\ Len(appended) > 10
    /\ historical_context # startStore
    /\ PredictionCalls # {}

\* C15 as stated: after 15 appends the store holds 10 records and they are
\* exactly the 5 most recently appended.
C15_TenLongAndFiveNewest ==
    Len(pair.log) = 15 =>
        /\ Len(pair.store) = 10
        /\ pair.store = SubSeq(pair.log, 11, 15)

\* C15 as amended: after 15 appends the store holds 10 records, exactly the
\* 10 most recently appended, oldest first; the first 5 are gone and the 5
\* most recently appended are its last five.
C15_TenLongAndTenNewest ==
    Len(pair.log) = 15 =>
        /\ Len(pair.store) = 10
        /\ \A i \in 1..10 : pair.store[i] = pair.log[i + 5]
        /\ \A i \in 1..5 : \A j \in 1..10 : pair.store[j].timestamp # pair.log[i].timestamp

C15_Witness_FifteenAppended ==
    /\ Len(pair.log) = 15
    /\ pair.store[10].timestamp = 15
    /\ pair.store[1].analysis # pair.store[10].analysis

\* C16: generate_report yields a report, with a header and four non-empty
\* sections, for every combination of stage results, all four None included.
C16_ReportNeverEmpty ==
    pair.step = "done" =>
        /\ DOMAIN pair.report = {"timestamp", "anomaly_detection", "load_prediction",
                                 "resource_recommendations", "high_availability_check"}
        /\ pair.report.timestamp = pair.now
        /\ Len(pair.report.anomaly_detection) > 0
        /\ Len(pair.report.load_prediction) > 0
        /\ Len(pair.report.resource_recommendations) > 0
        /\ Len(pair.report.high_availability_check) > 0

C16_Witness_AllSkipped ==
    /\ pair.step = "done"
    /\ pair.a = None /\ pair.p = None /\ pair.r = None /\ pair.ha = None
    /\ Len(pair.report.high_availability_check) > 0

\* C17: every started cycle reaches the write of the report and the sleep
\* after it, and another cycle follows: no cycle ends the loop.
C17_EveryCycleCompletes ==
    pc # "crashed"

\* C18: the history the anomaly stage puts in its prompt is made of the last
\* min(3, len) records of the store as the cycle found it, oldest first, one
\* entry per record (its timestamp and the first 200 characters of its
\* analysis), and is the text 'No historical data yet' for an empty store.
C18_LastThreeOldestFirst ==
    \A c \in 1..Len(calls) :
        calls[c].stage = "anomaly" =>
            LET n == Len(startStore)
                k == Min(3, n)
                view == calls[c].history
            IN  IF n = 0
                THEN view = <<<<"No historical data yet">>>>
                ELSE /\ Len(view) = k
                     /\ \A i \in 1..k :
                           LET rec == startStore[n - k + i]
                           IN  /\ view[i][1] = rec.timestamp
                               /\ view[i][3] = SubSeq(rec.analysis, 1, Min(200, Len(rec.analysis)))

C18_Witness_ThreeOfTen ==
    /\ pc = "predict"
    /\ Len(startStore) = 10
    /\ Len(calls) = 1
    /\ Len(calls[1].history) = 3
    /\ calls[1].history[3][1] = startStore[10].timestamp

\* C19: a step changes the store exactly when it is the anomaly stage
\* returning from a successful collaborator call, and then by one record
\* appended and at most one evicted; every other step (the anomaly stage
\* failing or raising, the three later stages, the report and its write, the
\* sleep, the next collection) leaves it as it was, so a cycle changes the
\* store if and only if its anomaly call succeeds.
C19_OnlyAnomalySuccessChangesStore ==
    [][/\ IF pc = "anomaly" /\ pc' = "predict" /\ "anomaly" \notin failed'
          THEN /\ OneAppended(historical_context, historical_context')
               /\ historical_context' # historical_context
          ELSE historical_context' = historical_context
       /\ pc \in {"predict", "optimize", "resilience", "report", "sleep"} =>
             (historical_context # startStore <=> "anomaly" \notin failed)]_vars

\* a cycle whose anomaly call failed asleep with the store untouched, the
\* later stages having called the collaborator
C19_Witness_FailedAnomalyCycle ==
    /\ pc = "sleep"
    /\ failed = {"anomaly"}
    /\ Len(calls) = 4
    /\ historical_context = startStore
    /\ Len(historical_context) = 10

\* the prediction stage of this cycle has returned
PredictionReturned == pc = "optimize" \/ Len(entered) >= 3

\* C20: from a fresh process the prediction stage of cycle n calls the
\* collaborator if and only if the anomaly call has succeeded in at least 3
\* of the cycles 1..n; when every anomaly call succeeds it is skipped in
\* cycles 1 and 2 and first calls in cycle 3.
C20_CalledIffThreeSuccesses ==
    PredictionReturned =>
        /\ PredictionCalls # {} <=> Len(appended) >= 3
        /\ Len(appended) <= iteration
        /\ Len(appended) = iteration => (PredictionCalls # {} <=> iteration >= 3)

C20_Witness_FirstCallInCycleThree ==
    /\ pc = "optimize"
    /\ iteration = 3
    /\ Len(appended) = 3
    /\ PredictionCalls # {}

====
